---- MODULE Spec2Model ----
(***************************************************************************)
(* The tool-calling bridge of the chatbot: the local variant               *)
(* (src/chatbot.py) and the remote, MCP-session variant (src/client.py).   *)
(*                                                                         *)
(* Spec      the conversation loop of both variants, with the remote       *)
(*           variant's connect handshake and teardown;                     *)
(* SpecTool  execute_tool applied to every handler outcome of a bounded    *)
(*           set of Python values.                                         *)
(***************************************************************************)
EXTENDS Integers, Sequences, FiniteSets, TLC

VARIABLES
    variant,          \* "local" (chatbot.py) or "remote" (client.py)
    pc,               \* position of the main coroutine / main()
    exc,              \* exception propagating out of main, "none" if none
    turns,            \* number of input() calls made so far
    eof,              \* stdin is exhausted: every further input() raises EOFError
    line,             \* the raw line the last input() returned
    query,            \* line.strip(), the query of the current turn
    intent,           \* function call of the current turn (name, args), or NoCall
    display,          \* what the current turn has printed, in order
    modelCalls,       \* generate_content requests of the current turn
    handlerCalls,     \* local handler invocations of the current turn
    toolRequests,     \* call_tool requests of the current turn (remote)
    session,          \* self.session: "null" or "bound"
    sessionState,     \* ClientSession: "none", "entered", "initialized", "closed"
    stdioState,       \* stdio_client channel: "none", "open", "closed"
    sessionCloses,    \* times ClientSession.__aexit__ ran
    stdioCloses,      \* times stdio_client's __aexit__ ran
    initRequests,     \* initialize requests sent
    listRequests,     \* list_tools requests sent
    hostTools,        \* the tool list the host advertises
    available_tools,  \* self.available_tools / TOOLS
    exitCause,        \* why main left the loop or never reached it
    apiKey,           \* os.environ holds API_KEY
    processCalls,     \* process_query calls of the current turn
    raised,           \* exception raised inside the try of the current turn
    result,           \* what process_query returned to chat_loop this turn
    response,         \* what generate_content did in the current turn
    modelPending,     \* generate_content requests not yet answered
    toolPending,      \* handler calls / call_tool requests not yet answered
    etPc,             \* execute_tool harness: position
    etName,           \* execute_tool harness: tool_name
    etOutcome,        \* execute_tool harness: what the handler does
    etResult          \* execute_tool harness: what execute_tool did

loopVars == <<variant, pc, exc, turns, eof, line, query, intent, display,
              modelCalls, handlerCalls, toolRequests, session, sessionState,
              stdioState, sessionCloses, stdioCloses, initRequests, listRequests,
              hostTools, available_tools, exitCause, apiKey,
              processCalls, raised, result, response, modelPending, toolPending>>
etVars == <<etPc, etName, etOutcome, etResult>>
vars == <<loopVars, etVars>>

-----------------------------------------------------------------------------
(* Bounds *)

\* input() calls per run
MaxTurns == 3

-----------------------------------------------------------------------------
(* Python values *)

PyNone == [tag |-> "none"]
PyStr(s) == [tag |-> "str", s |-> s]
PyInt(n) == [tag |-> "int", n |-> n]
PyBool(b) == [tag |-> "bool", b |-> b]
PyList(items) == [tag |-> "list", items |-> items]
PyTuple(items) == [tag |-> "tuple", items |-> items]
PyDict(pairs) == [tag |-> "dict", pairs |-> pairs]
\* an object json cannot serialize (e.g. a date)
PyObject(name) == [tag |-> "object", name |-> name]

Returned(v) == [kind |-> "return", value |-> v]
Raised(e) == [kind |-> "raise", exc |-> e]

Digit == <<"0", "1", "2", "3", "4", "5", "6", "7", "8", "9">>

RECURSIVE NatToStr(_)
NatToStr(n) == IF n < 10 THEN Digit[n + 1]
               ELSE NatToStr(n \div 10) \o Digit[(n % 10) + 1]

IntToStr(n) == IF n < 0 THEN "-" \o NatToStr(0 - n) ELSE NatToStr(n)

\* sep.join(strs) for a sequence of TLA+ strings
RECURSIVE JoinStrings(_, _)
JoinStrings(sep, strs) ==
    IF strs = <<>> THEN ""
    ELSE IF Len(strs) = 1 THEN strs[1]
    ELSE strs[1] \o sep \o JoinStrings(sep, Tail(strs))

\* repr() of a value, as print and str() show it inside a container
RECURSIVE PyRepr(_)
PyRepr(v) ==
    CASE v.tag = "none" -> "None"
      [] v.tag = "str" -> "'" \o v.s \o "'"
      [] v.tag = "int" -> IntToStr(v.n)
      [] v.tag = "bool" -> IF v.b THEN "True" ELSE "False"
      [] v.tag = "object" -> "<" \o v.name \o ">"
      [] v.tag = "list" ->
           "[" \o JoinStrings(", ", [i \in 1..Len(v.items) |-> PyRepr(v.items[i])]) \o "]"
      [] v.tag = "tuple" ->
           IF Len(v.items) = 1 THEN "(" \o PyRepr(v.items[1]) \o ",)"
           ELSE "(" \o JoinStrings(", ", [i \in 1..Len(v.items) |-> PyRepr(v.items[i])]) \o ")"
      [] v.tag = "dict" ->
           "{" \o JoinStrings(", ", [i \in 1..Len(v.pairs) |->
                    "'" \o v.pairs[i][1] \o "': " \o PyRepr(v.pairs[i][2])]) \o "}"

\* str(v): a string is itself, anything else its repr
str(v) == IF v.tag = "str" THEN v.s ELSE PyRepr(v)

\* bool(v), the truth value `if v:` tests
Truthy(v) ==
    CASE v.tag = "none" -> FALSE
      [] v.tag = "str" -> v.s # ""
      [] v.tag = "int" -> v.n # 0
      [] v.tag = "bool" -> v.b
      [] v.tag = "object" -> TRUE
      [] v.tag \in {"list", "tuple"} -> v.items # <<>>
      [] v.tag = "dict" -> v.pairs # <<>>

\* json can serialize v
RECURSIVE JsonSerializable(_)
JsonSerializable(v) ==
    CASE v.tag \in {"none", "str", "int", "bool"} -> TRUE
      [] v.tag = "object" -> FALSE
      [] v.tag \in {"list", "tuple"} ->
           \A i \in 1..Len(v.items) : JsonSerializable(v.items[i])
      [] v.tag = "dict" ->
           \A i \in 1..Len(v.pairs) : JsonSerializable(v.pairs[i][2])

Spaces(n) == JoinStrings("", [i \in 1..n |-> " "])

\* json.dumps(v, indent=2) at nesting depth `depth`, for a serializable v
RECURSIVE JsonDumps(_, _)
JsonDumps(v, depth) ==
    CASE v.tag = "none" -> "null"
      [] v.tag = "str" -> "\"" \o v.s \o "\""
      [] v.tag = "int" -> IntToStr(v.n)
      [] v.tag = "bool" -> IF v.b THEN "true" ELSE "false"
      [] v.tag \in {"list", "tuple"} ->
           IF v.items = <<>> THEN "[]"
           ELSE "[\n"
                \o JoinStrings(",\n", [i \in 1..Len(v.items) |->
                       Spaces(2 * (depth + 1)) \o JsonDumps(v.items[i], depth + 1)])
                \o "\n" \o Spaces(2 * depth) \o "]"
      [] v.tag = "dict" ->
           IF v.pairs = <<>> THEN "{}"
           ELSE "{\n"
                \o JoinStrings(",\n", [i \in 1..Len(v.pairs) |->
                       Spaces(2 * (depth + 1)) \o "\"" \o v.pairs[i][1] \o "\": "
                       \o JsonDumps(v.pairs[i][2], depth + 1)])
                \o "\n" \o Spaces(2 * depth) \o "}"

-----------------------------------------------------------------------------
(* execute_tool (chatbot.py) *)

NoResultText == "The operation completed but didn't return any results."

\* ",".join(result): every item has to be a str
JoinResult(items) ==
    IF \A i \in 1..Len(items) : items[i].tag = "str"
    THEN Returned(PyStr(JoinStrings(",", [i \in 1..Len(items) |-> items[i].s])))
    ELSE Raised("TypeError")

\* json.dumps(result, indent=2)
DumpResult(res) ==
    IF JsonSerializable(res)
    THEN Returned(PyStr(JsonDumps(res, 0)))
    ELSE Raised("TypeError")

\* the if/elif chain that follows the handler call
NormalizeResult(res) ==
    CASE res.tag = "none" -> Returned(PyStr(NoResultText))
      [] res.tag = "list" -> JoinResult(res.items)
      [] res.tag = "dict" -> DumpResult(res)
      [] OTHER -> Returned(PyStr(str(res)))

\* mapping_tool_function[tool_name](**tool_args), the handler doing `outcome`
CallMapped(tool_name, mapping, outcome) ==
    IF tool_name \notin mapping THEN Raised("KeyError") ELSE outcome

\* execute_tool(tool_name, tool_args, mapping_tool_function)
execute_tool(tool_name, mapping, outcome) ==
    LET called == CallMapped(tool_name, mapping, outcome)
    IN  IF called.kind = "raise" THEN called
        ELSE NormalizeResult(called.value)

-----------------------------------------------------------------------------
(* Input lines: sequences of one-character strings *)

\* what str.strip() removes (ASCII whitespace)
Whitespace == {" ", "\t", "\n", "\r", "\f"}

UpperLetters == <<"A", "B", "C", "D", "E", "F", "G", "H", "I", "J", "K", "L", "M",
                  "N", "O", "P", "Q", "R", "S", "T", "U", "V", "W", "X", "Y", "Z">>
LowerLetters == <<"a", "b", "c", "d", "e", "f", "g", "h", "i", "j", "k", "l", "m",
                  "n", "o", "p", "q", "r", "s", "t", "u", "v", "w", "x", "y", "z">>

LowerChar(c) ==
    IF \E i \in 1..Len(UpperLetters) : UpperLetters[i] = c
    THEN LowerLetters[CHOOSE i \in 1..Len(UpperLetters) : UpperLetters[i] = c]
    ELSE c

\* str.lower()
lower(s) == [i \in 1..Len(s) |-> LowerChar(s[i])]

RECURSIVE LStrip(_)
LStrip(s) == IF s # <<>> /\ Head(s) \in Whitespace THEN LStrip(Tail(s)) ELSE s

RECURSIVE RStrip(_)
RStrip(s) == IF s # <<>> /\ s[Len(s)] \in Whitespace
             THEN RStrip(SubSeq(s, 1, Len(s) - 1)) ELSE s

\* str.strip()
strip(s) == RStrip(LStrip(s))

QuitToken == <<"q", "u", "i", "t">>

\* the test without its lower(): query == "quit"
IsQuitCaseSensitive(q) == q = QuitToken

\* the test of chat_loop: query.lower() == "quit"
IsQuit(q) == lower(q) = QuitToken

\* the lines a user may type
InputLines ==
    { <<"q", "u", "i", "t">>,
      <<"Q", "U", "I", "T">>,
      <<"Q", "u", "i", "t">>,
      <<" ", " ", "q", "u", "i", "t", " ", " ">>,
      <<"\t", "q", "u", "i", "T", " ">>,
      <<"q", "u", "i", "t", " ", "m", "e">>,
      <<"q", "u", " ", "i", "t">>,
      <<"q", "u", "i", "t", "s">>,
      <<>>,
      <<" ", " ">>,
      <<"h", "i">>,
      <<" ", "H", "i", " ">> }

-----------------------------------------------------------------------------
(* The model service and the tools *)

NoCall == [name |-> "", args |-> ""]
\* no generate_content outcome yet in this turn
NoResponse == [kind |-> "none"]
FunctionCall(name, args) == [name |-> name, args |-> args]

\* a content part of a candidate: a function call or free text
CallPart(name, args) == [function_call |-> FunctionCall(name, args), text |-> ""]
TextPart(text) == [function_call |-> NoCall, text |-> text]

\* responses of generate_content: a sequence of candidates, each a sequence of parts
Responses ==
    { <<<<TextPart("Hello!")>>>>,
      <<<<TextPart("Hel"), TextPart("lo!")>>>>,
      <<<<CallPart("search_papers", "{'topic': 'x'}")>>>>,
      <<<<CallPart("extract_info", "{'paper_id': 'id1'}")>>>>,
      <<<<CallPart("get_weather", "{'city': 'y'}")>>>>,
      <<<<TextPart("Let me search."), CallPart("search_papers", "{'topic': 'x'}")>>>>,
      <<<<TextPart("No tool.")>>, <<CallPart("extract_info", "{'paper_id': 'id1'}")>>>>,
      <<<<CallPart("search_papers", "{'topic': 'x'}"),
          CallPart("extract_info", "{'paper_id': 'id1'}")>>>>,
      <<>>,
      <<<<>>>> }

\* what generate_content does: a response, or an exception of the client
ModelOutcomes == {Returned(r) : r \in Responses} \cup {Raised("APIError")}

\* a scan of every candidate and part for a function call, falling back to
\* the first part
FirstPartWithCall(resp) ==
    IF resp = <<>> THEN Raised("IndexError")
    ELSE IF resp[1] = <<>> THEN Raised("IndexError")
    ELSE LET calls == UNION { { <<c, p>> : p \in { q \in 1..Len(resp[c]) :
                                                      resp[c][q].function_call # NoCall } }
                              : c \in 1..Len(resp) }
         IN  IF calls = {} THEN Returned(resp[1][1])
             ELSE LET cp == CHOOSE x \in calls :
                                \A y \in calls : x[1] < y[1] \/ (x[1] = y[1] /\ x[2] <= y[2])
                  IN  Returned(resp[cp[1]][cp[2]])

\* response.candidates[0].content.parts[0]: the part, or the IndexError of an
\* empty candidate list or an empty part list
FirstPart(resp) ==
    IF resp = <<>> THEN Raised("IndexError")
    ELSE IF resp[1] = <<>> THEN Raised("IndexError")
    ELSE Returned(resp[1][1])

\* response.text taken from the last part alone
ResponseTextLastPart(resp) ==
    IF resp = <<>> THEN "None" ELSE resp[1][Len(resp[1])].text

\* response.text: the text parts of the first candidate, concatenated
ResponseText(resp) ==
    IF resp = <<>> THEN "None"
    ELSE JoinStrings("", [i \in 1..Len(resp[1]) |-> resp[1][i].text])

\* TOOLS of chatbot.py: the two declarations advertised to the model
TOOLS ==
    << [name |-> "search_papers",
        description |-> "Search for papers on arXiv",
        parameters |-> [type |-> "object",
                        properties |-> "topic,max_results",
                        required |-> "topic"]],
       [name |-> "extract_info",
        description |-> "Search for information about a specific paper.",
        parameters |-> [type |-> "object",
                        properties |-> "paper_id",
                        required |-> "paper_id"]] >>

\* what search_papers(**args) can do: the ids found, or an exception
SearchPapersOutcomes ==
    { Returned(PyList(<<>>)),
      Returned(PyList(<<PyStr("id1")>>)),
      Returned(PyList(<<PyStr("id1"), PyStr("id2")>>)),
      Raised("HTTPError"),
      Raised("TypeError") }

NotFoundText == "There's no saved information related to paper id1."

\* what extract_info(**args) can do: the record as JSON, the not-found message,
\* or an exception (os.listdir of a missing PAPER_DIR, bad arguments)
ExtractInfoOutcomes ==
    { Returned(PyStr(JsonDumps(PyDict(<< <<"title", PyStr("T")>>,
                                         <<"published", PyStr("2013-10-29")>> >>), 0))),
      Returned(PyStr(NotFoundText)),
      Raised("FileNotFoundError"),
      Raised("TypeError") }

\* what session.call_tool can do: a result with content parts, or a channel error
CallToolResult(content, isError) == [content |-> content, isError |-> isError]

CallToolOutcomes ==
    { Returned(CallToolResult(<<"id1,id2">>, FALSE)),
      Returned(CallToolResult(<<"part one", "part two">>, FALSE)),
      Returned(CallToolResult(<<>>, FALSE)),
      Returned(CallToolResult(<<"Unknown tool">>, TRUE)),
      Raised("McpError") }

\* tools a host may advertise: name, description, inputSchema (key -> value)
HostTool(name, description, inputSchema) ==
    [name |-> name, description |-> description, inputSchema |-> inputSchema]

SchemaFull ==
    [k \in {"type", "properties", "required", "additionalProperties", "$schema", "title"}
       |-> CASE k = "type" -> "object"
             [] k = "properties" ->
                  [topic |-> [type |-> "string"],
                   options |-> [type |-> "object", additionalProperties |-> "false"]]
             [] k = "required" -> "topic"
             [] k = "additionalProperties" -> "false"
             [] k = "$schema" -> "http://json-schema.org/draft-07/schema#"
             [] k = "title" -> "search_papersArguments"]

SchemaPlain ==
    [k \in {"type", "properties"}
       |-> CASE k = "type" -> "object"
             [] k = "properties" -> "paper_id"]

HostToolLists ==
    { <<>>,
      <<HostTool("search_papers", "Search for papers", SchemaFull)>>,
      <<HostTool("search_papers", "Search for papers", SchemaFull),
        HostTool("extract_info", "Look a paper up", SchemaPlain)>>,
      <<HostTool("search_papers", "Search for papers", SchemaFull),
        HostTool("search_papers", "Search again", SchemaPlain)>> }

StrippedKeys == {"additionalProperties", "$schema"}

\* a comprehension whose filter names additionalProperties alone
FilterSchemaKeepsDollarSchema(inputSchema) ==
    [k \in (DOMAIN inputSchema) \ {"additionalProperties"} |-> inputSchema[k]]

\* the dict comprehension over t.inputSchema.items()
FilterSchema(inputSchema) ==
    [k \in (DOMAIN inputSchema) \ StrippedKeys |-> inputSchema[k]]

\* the list comprehension building self.available_tools: one types.Tool,
\* holding one function declaration, per tool of the host
TranslateTools(tools) ==
    [i \in 1..Len(tools) |->
        [function_declarations |->
            << [name |-> tools[i].name,
                description |-> tools[i].description,
                parameters |-> FilterSchema(tools[i].inputSchema)] >>]]

-----------------------------------------------------------------------------
(* Printing *)

Printed(kind, text) == [kind |-> kind, text |-> text]

\* str(e) of the exceptions of the model
ExcMessage(e) ==
    CASE e = "EOFError" -> "EOF when reading a line"
      [] e = "KeyError" -> "'API_KEY'"
      [] e = "IndexError" -> "list index out of range"
      [] e = "UnboundLocalError" ->
           "cannot access local variable 'result' where it is not associated with a value"
      [] e = "AttributeError" -> "'NoneType' object has no attribute 'call_tool'"
      [] OTHER -> e

\* subclasses of Exception, which `except Exception` catches
ExceptionClasses ==
    {"EOFError", "KeyError", "IndexError", "UnboundLocalError", "AttributeError",
     "TypeError", "APIError", "HTTPError", "FileNotFoundError", "McpError", "OSError"}

\* a narrower clause: except (KeyError, IndexError)
CatchesLookupErrors(e) == e \in {"KeyError", "IndexError"}

\* the except clause of chat_loop
Catches(e) == e \in ExceptionClasses

-----------------------------------------------------------------------------
(* The conversation loop *)

connVars == <<session, sessionState, stdioState, sessionCloses, stdioCloses,
              initRequests, listRequests, hostTools, available_tools>>
envVars == <<variant, apiKey>>
inputVars == <<turns, eof, line, query>>
turnVars == <<intent, modelCalls, handlerCalls, toolRequests, processCalls,
              response, modelPending, toolPending>>
pendingVars == <<modelPending, toolPending>>
errVars == <<exc, exitCause, raised>>

Banner == Printed("banner", "Type your queries or 'quit' to exit.")

\* where control goes when chat_loop itself ends with exception e
LoopAbort(e, shown) ==
    /\ pc' = IF variant = "remote" THEN "session_exit" ELSE "exited"
    /\ exc' = e
    /\ exitCause' = "uncaught"
    /\ raised' = e
    /\ display' = shown

\* exception e raised inside the try of chat_loop, after `shown` was printed:
\* the except clause prints it and the while loop goes on
RaiseInLoop(e, shown) ==
    IF Catches(e)
    THEN /\ pc' = "AwaitingQuery"
         /\ display' = Append(shown, Printed("error", ExcMessage(e)))
         /\ raised' = e
         /\ UNCHANGED <<exc, exitCause>>
    ELSE LoopAbort(e, shown)

\* input() finds the stream at its end and raises EOFError
ReadEOF ==
    /\ pc = "AwaitingQuery"
    /\ turns < MaxTurns
    /\ turns' = turns + 1
    /\ eof' = TRUE
    /\ RaiseInLoop("EOFError", <<>>)
    /\ intent' = NoCall
    /\ modelCalls' = 0
    /\ handlerCalls' = 0
    /\ toolRequests' = 0
    /\ processCalls' = 0
    /\ result' = PyNone
    /\ response' = NoResponse
    /\ UNCHANGED <<line, query, pendingVars, connVars, envVars, etVars>>

\* generate_content behind a wrapper that sends the request a second time
StartQueryResent ==
    IF variant = "local" /\ ~apiKey
    THEN /\ RaiseInLoop("KeyError", <<>>)
         /\ modelCalls' = 0
         /\ UNCHANGED pendingVars
    ELSE /\ pc' = "ModelPending"
         /\ modelCalls' = 2
         /\ modelPending' = modelPending + 1
         /\ toolPending' = toolPending
         /\ display' = <<>>
         /\ raised' = "none"
         /\ UNCHANGED <<exc, exitCause>>

\* process_query up to its generate_content request; the local variant first
\* builds its client from os.environ['API_KEY']
StartQuery ==
    IF variant = "local" /\ ~apiKey
    THEN /\ RaiseInLoop("KeyError", <<>>)
         /\ modelCalls' = 0
         /\ UNCHANGED pendingVars
    ELSE /\ pc' = "ModelPending"
         /\ modelCalls' = 1
         /\ modelPending' = modelPending + 1
         /\ toolPending' = toolPending
         /\ display' = <<>>
         /\ raised' = "none"
         /\ UNCHANGED <<exc, exitCause>>

\* input() returns a line: strip it, break on quit, else process_query
ReadLine ==
    /\ pc = "AwaitingQuery"
    /\ turns < MaxTurns
    /\ ~eof
    /\ \E l \in InputLines :
         /\ line' = l
         /\ query' = strip(l)
         /\ IF IsQuit(query')
            THEN /\ pc' = "Done"
                 /\ exitCause' = "quit"
                 /\ display' = <<>>
                 /\ modelCalls' = 0
                 /\ processCalls' = 0
                 /\ raised' = "none"
                 /\ exc' = exc
                 /\ UNCHANGED pendingVars
            ELSE /\ processCalls' = 1
                 /\ StartQuery
    /\ turns' = turns + 1
    /\ intent' = NoCall
    /\ handlerCalls' = 0
    /\ toolRequests' = 0
    /\ result' = PyNone
    /\ response' = NoResponse
    /\ UNCHANGED <<eof, connVars, envVars, etVars>>

\* the chain ending in a bare else: every other name runs extract_info
LocalHandlerForElse(name) ==
    IF name = "search_papers" THEN "search_papers" ELSE "extract_info"

\* the if/elif chain of the local process_query: the handler a name selects
LocalHandlerFor(name) ==
    IF name = "search_papers" THEN "search_papers"
    ELSE IF name = "extract_info" THEN "extract_info"
    ELSE "none"

\* the function-call branch of the local process_query
LocalDispatch(fc, shown) ==
    IF LocalHandlerFor(fc.name) # "none"
    THEN /\ pc' = "ToolPending"
         /\ handlerCalls' = handlerCalls + 1
         /\ toolPending' = toolPending + 1
         /\ display' = shown
         /\ UNCHANGED <<errVars, toolRequests>>
    ELSE \* `return result` with result never assigned
         /\ RaiseInLoop("UnboundLocalError", shown)
         /\ UNCHANGED <<handlerCalls, toolRequests, toolPending>>

\* call_tool scheduled without being awaited: the turn ends with it pending
RemoteDispatchNoAwait(fc, shown) ==
    IF session = "null"
    THEN /\ RaiseInLoop("AttributeError", shown)
         /\ UNCHANGED <<handlerCalls, toolRequests, toolPending>>
    ELSE /\ pc' = "AwaitingQuery"
         /\ toolRequests' = toolRequests + 1
         /\ toolPending' = toolPending + 1
         /\ display' = shown
         /\ UNCHANGED <<errVars, handlerCalls>>

\* the function-call branch of the remote process_query: await call_tool
RemoteDispatch(fc, shown) ==
    IF session = "null"
    THEN /\ RaiseInLoop("AttributeError", shown)
         /\ UNCHANGED <<handlerCalls, toolRequests, toolPending>>
    ELSE /\ pc' = "ToolPending"
         /\ toolRequests' = toolRequests + 1
         /\ toolPending' = toolPending + 1
         /\ display' = shown
         /\ UNCHANGED <<errVars, handlerCalls>>

NoCallText == IF variant = "local" THEN "No function call found in the response."
              ELSE "No Function called"

\* what the loop prints after a process_query that returned normally
AfterQuery == IF variant = "remote" THEN <<Printed("newline", "\n")>> ELSE <<>>

\* generate_content answers (or fails) and process_query inspects the first part
ModelRespond ==
    /\ pc = "ModelPending"
    /\ \E o \in ModelOutcomes :
         /\ response' = o
         /\ LET part == IF o.kind = "raise" THEN o ELSE FirstPart(o.value)
            IN  IF part.kind = "raise"
                THEN /\ RaiseInLoop(part.exc, display)
                     /\ UNCHANGED <<intent, handlerCalls, toolRequests, toolPending, result>>
                ELSE IF part.value.function_call # NoCall
                THEN LET fc == part.value.function_call
                         shown == display \o
                                  << Printed("fn", "Function to call: " \o fc.name),
                                     Printed("args", "Arguments: " \o fc.args) >>
                     IN  /\ intent' = fc
                         /\ result' = result
                         /\ IF variant = "local"
                            THEN LocalDispatch(fc, shown)
                            ELSE RemoteDispatch(fc, shown)
                ELSE /\ display' = display \o
                                   << Printed("nofn", NoCallText),
                                      Printed("text", ResponseText(o.value)) >>
                                   \o AfterQuery
                     /\ pc' = "AwaitingQuery"
                     /\ result' = PyNone
                     /\ UNCHANGED <<intent, handlerCalls, toolRequests, toolPending, errVars>>
    /\ modelPending' = modelPending - 1
    /\ UNCHANGED <<modelCalls, processCalls, inputVars, connVars, envVars, etVars>>

LocalOutcomes(name) ==
    IF name = "search_papers" THEN SearchPapersOutcomes ELSE ExtractInfoOutcomes

\* what a handler prints before it returns
HandlerPrints(name) ==
    IF name = "search_papers"
    THEN <<Printed("saved", "Results are saved in: papers/x/papers_info.json")>>
    ELSE <<>>

\* chat_loop with the value process_query returned: printed when truthy
ShowResult(res) ==
    IF Truthy(res)
    THEN <<Printed("resultHdr", "Result:"), Printed("result", str(res))>>
    ELSE <<>>

\* the local handler returns (or raises); process_query returns its value as
\* it is and chat_loop shows it
HandlerReturn ==
    /\ pc = "ToolPending"
    /\ variant = "local"
    /\ \E o \in LocalOutcomes(LocalHandlerFor(intent.name)) :
         IF o.kind = "raise"
         THEN /\ RaiseInLoop(o.exc, display)
              /\ result' = result
         ELSE /\ result' = o.value
              /\ display' = display \o HandlerPrints(LocalHandlerFor(intent.name))
                            \o ShowResult(result')
              /\ pc' = "AwaitingQuery"
              /\ UNCHANGED errVars
    /\ toolPending' = toolPending - 1
    /\ UNCHANGED <<intent, modelCalls, handlerCalls, toolRequests, processCalls, response,
                   modelPending, inputVars, connVars, envVars, etVars>>

\* process_query asking the host for its tools again after each tool result
ToolRespondRelisting ==
    /\ pc = "ToolPending"
    /\ variant = "remote"
    /\ \E o \in CallToolOutcomes :
         IF o.kind = "raise"
         THEN /\ RaiseInLoop(o.exc, display)
              /\ result' = result
              /\ UNCHANGED <<listRequests, hostTools, available_tools>>
         ELSE LET shown == Append(display, Printed("resultHdr", "Result:"))
              IN  IF o.value.content = <<>>
                  THEN /\ RaiseInLoop("IndexError", shown)
                       /\ result' = result
                       /\ UNCHANGED <<listRequests, hostTools, available_tools>>
                  ELSE /\ display' = Append(shown, Printed("result", o.value.content[1]))
                                     \o AfterQuery
                       /\ result' = PyObject("CallToolResult")
                       /\ pc' = "AwaitingQuery"
                       /\ listRequests' = listRequests + 1
                       /\ \E tools \in HostToolLists :
                            /\ hostTools' = tools
                            /\ available_tools' = TranslateTools(tools)
                       /\ UNCHANGED errVars
    /\ toolPending' = toolPending - 1
    /\ UNCHANGED <<intent, modelCalls, handlerCalls, toolRequests, processCalls, response,
                   modelPending, inputVars, envVars, etVars, session, sessionState,
                   stdioState, sessionCloses, stdioCloses, initRequests>>

\* process_query repeating the handshake when call_tool fails
ToolRespondReconnecting ==
    /\ pc = "ToolPending"
    /\ variant = "remote"
    /\ \E o \in CallToolOutcomes :
         IF o.kind = "raise"
         THEN /\ RaiseInLoop(o.exc, display)
              /\ result' = result
              /\ initRequests' = initRequests + 1
              /\ listRequests' = listRequests + 1
         ELSE LET shown == Append(display, Printed("resultHdr", "Result:"))
              IN  IF o.value.content = <<>>
                  THEN /\ RaiseInLoop("IndexError", shown)
                       /\ result' = result
                       /\ UNCHANGED <<initRequests, listRequests>>
                  ELSE /\ display' = Append(shown, Printed("result", o.value.content[1]))
                                     \o AfterQuery
                       /\ result' = PyObject("CallToolResult")
                       /\ pc' = "AwaitingQuery"
                       /\ UNCHANGED <<initRequests, listRequests>>
                       /\ UNCHANGED errVars
    /\ toolPending' = toolPending - 1
    /\ UNCHANGED <<intent, modelCalls, handlerCalls, toolRequests, processCalls, response,
                   modelPending, inputVars, envVars, etVars, session, sessionState,
                   stdioState, sessionCloses, stdioCloses, hostTools, available_tools>>

\* the call_tool response arrives (or the channel fails); process_query
\* prints the first content part's text
ToolRespond ==
    /\ pc = "ToolPending"
    /\ variant = "remote"
    /\ \E o \in CallToolOutcomes :
         IF o.kind = "raise"
         THEN /\ RaiseInLoop(o.exc, display)
              /\ result' = result
         ELSE LET shown == Append(display, Printed("resultHdr", "Result:"))
              IN  IF o.value.content = <<>>
                  THEN /\ RaiseInLoop("IndexError", shown)
                       /\ result' = result
                  ELSE /\ display' = Append(shown, Printed("result", o.value.content[1]))
                                     \o AfterQuery
                       /\ result' = PyObject("CallToolResult")
                       /\ pc' = "AwaitingQuery"
                       /\ UNCHANGED errVars
    /\ toolPending' = toolPending - 1
    /\ UNCHANGED <<intent, modelCalls, handlerCalls, toolRequests, processCalls, response,
                   modelPending, inputVars, connVars, envVars, etVars>>

\* chat_loop returns after its break
LeaveLoop ==
    /\ pc = "Done"
    /\ pc' = IF variant = "remote" THEN "session_exit" ELSE "exited"
    /\ UNCHANGED <<errVars, result, display, turnVars, inputVars, connVars, envVars, etVars>>

-----------------------------------------------------------------------------
(* Startup and teardown *)

\* main() of chatbot.py: the two warm-up calls, then chat_loop
LocalMain ==
    /\ pc = "main"
    /\ variant = "local"
    /\ \E ok \in BOOLEAN :
         IF ok
         THEN /\ pc' = "AwaitingQuery"
              /\ display' = <<Banner>>
              /\ UNCHANGED <<exc, exitCause>>
         ELSE /\ pc' = "exited"
              /\ exc' = "HTTPError"
              /\ exitCause' = "startup_failed"
              /\ display' = display
    /\ UNCHANGED <<raised, result, turnVars, inputVars, connVars, envVars, etVars>>

\* async with stdio_client(server_params): spawn the host, open the channel
EnterStdio ==
    /\ pc = "start"
    /\ variant = "remote"
    /\ \E ok \in BOOLEAN :
         IF ok
         THEN /\ stdioState' = "open"
              /\ pc' = "stdio_entered"
              /\ UNCHANGED <<exc, exitCause>>
         ELSE /\ stdioState' = stdioState
              /\ pc' = "exited"
              /\ exc' = "OSError"
              /\ exitCause' = "spawn_failed"
    /\ UNCHANGED <<raised, result, display, turnVars, inputVars, envVars, etVars, session, sessionState,
                   sessionCloses, stdioCloses, initRequests, listRequests, hostTools,
                   available_tools>>

\* the session bound and list_tools requested with no initialize in between
EnterSessionSkippingInitialize ==
    /\ pc = "stdio_entered"
    /\ sessionState' = "entered"
    /\ session' = "bound"
    /\ pc' = "initialized"
    /\ UNCHANGED <<errVars, result, display, turnVars, inputVars, envVars, etVars,
                   stdioState, sessionCloses, stdioCloses, initRequests, listRequests,
                   hostTools, available_tools>>

\* async with ClientSession(read, write) as session; self.session = session
EnterSession ==
    /\ pc = "stdio_entered"
    /\ sessionState' = "entered"
    /\ session' = "bound"
    /\ pc' = "session_bound"
    /\ UNCHANGED <<errVars, result, display, turnVars, inputVars, envVars, etVars,
                   stdioState, sessionCloses, stdioCloses, initRequests, listRequests,
                   hostTools, available_tools>>

\* initialize inside a try that swallows the failure and goes on
InitializeSwallowsFailure ==
    /\ pc = "session_bound"
    /\ initRequests' = initRequests + 1
    /\ \E ok \in BOOLEAN :
         IF ok
         THEN /\ sessionState' = "initialized"
              /\ UNCHANGED <<exc, exitCause>>
         ELSE /\ sessionState' = sessionState
              /\ exc' = exc
              /\ exitCause' = "initialize_failed"
    /\ pc' = "initialized"
    /\ UNCHANGED <<raised, result, display, turnVars, inputVars, envVars, etVars, session, stdioState,
                   sessionCloses, stdioCloses, listRequests, hostTools, available_tools>>

\* await session.initialize()
Initialize ==
    /\ pc = "session_bound"
    /\ initRequests' = initRequests + 1
    /\ \E ok \in BOOLEAN :
         IF ok
         THEN /\ sessionState' = "initialized"
              /\ pc' = "initialized"
              /\ UNCHANGED <<exc, exitCause>>
         ELSE /\ sessionState' = sessionState
              /\ pc' = "session_exit"
              /\ exc' = "McpError"
              /\ exitCause' = "initialize_failed"
    /\ UNCHANGED <<raised, result, display, turnVars, inputVars, envVars, etVars, session, stdioState,
                   sessionCloses, stdioCloses, listRequests, hostTools, available_tools>>

\* await session.list_tools(), the translation into available_tools, and the
\* entry into chat_loop
ListTools ==
    /\ pc = "initialized"
    /\ listRequests' = listRequests + 1
    /\ \/ \E tools \in HostToolLists :
            /\ hostTools' = tools
            /\ available_tools' = TranslateTools(tools)
            /\ display' = <<Printed("connected", "Connected to server with tools:"),
                            Printed("banner", "MCP Chatbot Started!"), Banner>>
            /\ pc' = "AwaitingQuery"
            /\ UNCHANGED <<exc, exitCause>>
       \/ /\ pc' = "session_exit"
          /\ exc' = "McpError"
          /\ exitCause' = "list_tools_failed"
          /\ UNCHANGED <<hostTools, available_tools, display>>
    /\ UNCHANGED <<raised, result, turnVars, inputVars, envVars, etVars, session, sessionState, stdioState,
                   sessionCloses, stdioCloses, initRequests>>

\* the inner async with is left, normally or by an exception:
\* ClientSession.__aexit__ closes the session
ExitSession ==
    /\ pc = "session_exit"
    /\ sessionState' = "closed"
    /\ sessionCloses' = sessionCloses + 1
    /\ pc' = "stdio_exit"
    /\ UNCHANGED <<errVars, result, display, turnVars, inputVars, envVars, etVars, session,
                   stdioState, stdioCloses, initRequests, listRequests, hostTools,
                   available_tools>>

\* a close written after the block instead of a context manager: it is
\* skipped when an exception is in flight
ExitStdioOnSuccess ==
    /\ pc = "stdio_exit"
    /\ stdioState' = IF exc = "none" THEN "closed" ELSE stdioState
    /\ stdioCloses' = IF exc = "none" THEN stdioCloses + 1 ELSE stdioCloses
    /\ pc' = "exited"
    /\ UNCHANGED <<errVars, result, display, turnVars, inputVars, envVars, etVars, session,
                   sessionState, sessionCloses, initRequests, listRequests, hostTools,
                   available_tools>>

\* the outer async with is left: stdio_client closes the channel and
\* connect_to_server_and_run ends, raising exc if one is in flight
ExitStdio ==
    /\ pc = "stdio_exit"
    /\ stdioState' = "closed"
    /\ stdioCloses' = stdioCloses + 1
    /\ pc' = "exited"
    /\ UNCHANGED <<errVars, result, display, turnVars, inputVars, envVars, etVars, session,
                   sessionState, sessionCloses, initRequests, listRequests, hostTools,
                   available_tools>>

-----------------------------------------------------------------------------
(* The specification of the loop *)

EtIdle ==
    /\ etPc = "idle"
    /\ etName = "search_papers"
    /\ etOutcome = Returned(PyNone)
    /\ etResult = Returned(PyNone)

LoopStart ==
    /\ pc = IF variant = "local" THEN "main" ELSE "start"
    /\ exc = "none"
    /\ turns = 0
    /\ eof = FALSE
    /\ line = <<>>
    /\ query = <<>>
    /\ intent = NoCall
    /\ display = <<>>
    /\ modelCalls = 0
    /\ handlerCalls = 0
    /\ toolRequests = 0
    /\ session = "null"
    /\ sessionState = "none"
    /\ stdioState = "none"
    /\ sessionCloses = 0
    /\ stdioCloses = 0
    /\ initRequests = 0
    /\ listRequests = 0
    /\ hostTools = <<>>
    /\ available_tools = IF variant = "local"
                         THEN <<[function_declarations |-> TOOLS]>>
                         ELSE <<>>
    /\ exitCause = "none"
    /\ processCalls = 0
    /\ raised = "none"
    /\ result = PyNone
    /\ response = NoResponse
    /\ modelPending = 0
    /\ toolPending = 0

Init ==
    /\ variant \in {"local", "remote"}
    /\ apiKey \in IF variant = "local" THEN BOOLEAN ELSE {TRUE}
    /\ LoopStart
    /\ EtIdle

Next ==
    \/ LocalMain
    \/ EnterStdio
    \/ EnterSession
    \/ Initialize
    \/ ListTools
    \/ ReadEOF
    \/ ReadLine
    \/ ModelRespond
    \/ HandlerReturn
    \/ ToolRespond
    \/ LeaveLoop
    \/ ExitSession
    \/ ExitStdio

Spec == Init /\ [][Next]_vars

-----------------------------------------------------------------------------
(* execute_tool on its own: no code of the repository calls it, so it is     *)
(* applied here to every tool name and handler outcome of a bounded set      *)

\* the names bound in mapping_tool_function
MappingToolFunction == {TOOLS[i].name : i \in 1..Len(TOOLS)}

EtNames == MappingToolFunction \cup {"get_weather"}

\* values a handler may return
EtValues ==
    { PyNone,
      PyList(<<>>),
      PyList(<<PyStr("id1")>>),
      PyList(<<PyStr("id1"), PyStr("id2")>>),
      PyList(<<PyStr("id2"), PyStr("id1")>>),
      PyList(<<PyStr("a"), PyStr("b"), PyStr("c")>>),
      PyList(<<PyInt(1), PyInt(2)>>),
      PyList(<<PyStr("id1"), PyNone>>),
      PyDict(<<>>),
      PyDict(<< <<"title", PyStr("T")>>, <<"year", PyInt(2013)>> >>),
      PyDict(<< <<"year", PyInt(2013)>>, <<"title", PyStr("T")>> >>),
      PyDict(<< <<"authors", PyList(<<PyStr("A"), PyStr("B")>>)>> >>),
      PyDict(<< <<"published", PyObject("date")>> >>),
      PyStr(""),
      PyStr("id1"),
      PyStr(NotFoundText),
      PyInt(0),
      PyInt(42),
      PyInt(-7),
      PyBool(TRUE),
      PyBool(FALSE),
      PyTuple(<<PyStr("id1"), PyStr("id2")>>),
      PyTuple(<<PyStr("id1")>>),
      PyObject("Result") }

\* what the handler does when called: return a value or raise
EtOutcomes == {Returned(v) : v \in EtValues}
              \cup {Raised("ValueError"), Raised("HTTPError"), Raised("FileNotFoundError")}

\* one call of execute_tool
EtExecute ==
    /\ etPc = "idle"
    /\ etResult' = execute_tool(etName, MappingToolFunction, etOutcome)
    /\ etPc' = IF etResult'.kind = "raise" THEN "raised" ELSE "returned"
    /\ UNCHANGED <<etName, etOutcome, loopVars>>

InitTool ==
    /\ variant = "local"
    /\ apiKey = TRUE
    /\ LoopStart
    /\ etPc = "idle"
    /\ etName \in EtNames
    /\ etOutcome \in EtOutcomes
    /\ etResult = Returned(PyNone)

NextTool == EtExecute

SpecTool == InitTool /\ [][NextTool]_vars

-----------------------------------------------------------------------------
(* Properties *)

\* l, trimmed of whitespace and lower-cased, is the token quit: stated on the
\* characters of l
TrimmedLowerIsQuit(l) ==
    \E a \in 0..Len(l) :
       /\ a + 4 <= Len(l)
       /\ \A i \in 1..a : l[i] \in Whitespace
       /\ \A i \in (a + 5)..Len(l) : l[i] \in Whitespace
       /\ l[a + 1] \in {"q", "Q"}
       /\ l[a + 2] \in {"u", "U"}
       /\ l[a + 3] \in {"i", "I"}
       /\ l[a + 4] \in {"t", "T"}

\* l holds nothing but whitespace
IsBlank(l) == \A i \in 1..Len(l) : l[i] \in Whitespace

\* this step is an input() call that returned a line
ReadsALine == pc = "AwaitingQuery" /\ turns' = turns + 1 /\ ~eof'

\* this step is an input() call that met the end of the input
ReadsEof == pc = "AwaitingQuery" /\ turns' = turns + 1 /\ eof'

LastShown == display[Len(display)]

Shows(kind) == \E i \in 1..Len(display) : display[i].kind = kind

\* C1: in both variants a line ends the loop exactly when its trimmed,
\* lower-cased form is "quit"; quitting calls process_query not at all, and
\* every other non-blank line ("quit me") is dispatched and the loop goes on.
C1_QuitExactly ==
    [][ReadsALine =>
          /\ (pc' = "Done") <=> TrimmedLowerIsQuit(line')
          /\ pc' = "Done" => processCalls' = 0 /\ modelCalls' = 0
          /\ (~TrimmedLowerIsQuit(line') /\ ~IsBlank(line')) =>
                 processCalls' = 1 /\ pc' \in {"ModelPending", "AwaitingQuery"}
          /\ line' = <<"q", "u", "i", "t", " ", "m", "e">> =>
                 processCalls' = 1 /\ pc' # "Done"]_vars

C1_Witness ==
    /\ pc = "Done"
    /\ variant = "remote"
    /\ line = <<"\t", "q", "u", "i", "T", " ">>
    /\ turns = 2

\* C2: a line that is empty after trimming re-prompts: the loop stays in
\* AwaitingQuery and process_query, hence the model service, is not called.
C2_BlankLineReprompts ==
    [][(ReadsALine /\ IsBlank(line')) =>
          pc' = "AwaitingQuery" /\ processCalls' = 0 /\ modelCalls' = 0]_vars

\* C3: end-of-input in AwaitingQuery takes the loop to Done instead of
\* prompting again.
C3_EofEndsLoop == [][ReadsEof => pc' = "Done"]_vars

\* C4: whatever fails in a turn is reported and the loop is back in
\* AwaitingQuery; a started loop is left only through a quit line.
C4_TurnErrorsReturnToPrompt ==
    /\ raised # "none" =>
          /\ pc = "AwaitingQuery"
          /\ display # <<>>
          /\ LastShown = Printed("error", ExcMessage(raised))
    /\ pc = "Done" => TrimmedLowerIsQuit(line)
    /\ (turns > 0 /\ pc \in {"session_exit", "stdio_exit", "exited"}) =>
          /\ exitCause = "quit"
          /\ exc = "none"
          /\ TrimmedLowerIsQuit(line)

C4_Witness ==
    /\ variant = "remote"
    /\ raised = "McpError"
    /\ toolRequests = 1
    /\ pc = "AwaitingQuery"

\* C5: remote variant: the session and the channel are each closed at most
\* once, and exactly once, leaving nothing open, when
\* connect_to_server_and_run has ended after a quit or a failed handshake.
C5_ChannelClosedOnce ==
    /\ sessionCloses <= 1
    /\ stdioCloses <= 1
    /\ (/\ variant = "remote"
        /\ pc = "exited"
        /\ exitCause \in {"quit", "initialize_failed", "list_tools_failed"}) =>
          /\ sessionCloses = 1
          /\ stdioCloses = 1
          /\ sessionState = "closed"
          /\ stdioState = "closed"
    /\ pc = "exited" => stdioState # "open"

C5_Witness ==
    /\ variant = "remote"
    /\ pc = "exited"
    /\ exitCause = "quit"
    /\ turns >= 2
    /\ stdioCloses = 1

\* C6: a failed initialize or list_tools is fatal to startup: chat_loop is
\* not entered, no query is read or processed, and the failure leaves
\* connect_to_server_and_run as an exception.
C6_HandshakeFailureFatal ==
    exitCause \in {"initialize_failed", "list_tools_failed"} =>
       /\ pc \in {"session_exit", "stdio_exit", "exited"}
       /\ exc = "McpError"
       /\ turns = 0
       /\ processCalls = 0
       /\ modelCalls = 0
       /\ ~Shows("banner")

C6_Witness ==
    /\ pc = "exited"
    /\ exitCause = "initialize_failed"
    /\ exc = "McpError"

\* C7: execute_tool maps every value a bound handler returns to one text:
\* None to the sentinel, a sequence of strings to its items joined by ","
\* in order, a mapping to JSON holding every key, anything else to its
\* string conversion.
C7_NormalizationTotal ==
    (etPc # "idle" /\ etName \in MappingToolFunction /\ etOutcome.kind = "return") =>
       /\ etResult.kind = "return"
       /\ etResult.value.tag = "str"
       /\ etOutcome.value = PyNone =>
             etResult.value.s = "The operation completed but didn't return any results."
       /\ etOutcome.value = PyList(<<PyStr("id1"), PyStr("id2")>>) =>
             etResult.value.s = "id1,id2"
       /\ etOutcome.value = PyList(<<PyStr("a"), PyStr("b"), PyStr("c")>>) =>
             etResult.value.s = "a,b,c"
       /\ etOutcome.value = PyInt(42) => etResult.value.s = "42"

\* C8: when the handler raises, execute_tool returns a text carrying an
\* error message; the failure is not an exception out of execute_tool.
C8_HandlerFailureIsText ==
    (etPc # "idle" /\ etName \in MappingToolFunction /\ etOutcome.kind = "raise") =>
       /\ etResult.kind = "return"
       /\ etResult.value.tag = "str"

\* C9: on every function-call turn whose handler returned, the loop displays
\* the normalized text of the handler's value (the sentinel for an absent or
\* empty one), never the raw value and never nothing.
C9_DisplayedIsNormalized ==
    /\ (variant = "local" /\ pc = "AwaitingQuery" /\ handlerCalls = 1 /\ raised = "none") =>
          /\ NormalizeResult(result).kind = "return"
          /\ \E i \in 1..Len(display) :
                /\ display[i].kind = "result"
                /\ display[i].text = NormalizeResult(result).value.s
    /\ (variant = "remote" /\ pc = "AwaitingQuery" /\ toolRequests = 1 /\ raised = "none") =>
          Shows("result")

FirstIsText(r) ==
    /\ r.kind = "return"
    /\ r.value # <<>>
    /\ r.value[1] # <<>>
    /\ r.value[1][1].function_call = NoCall

\* the first part of the first candidate exists and carries a function call
FirstIsCall(r) ==
    /\ r.kind = "return"
    /\ r.value # <<>>
    /\ r.value[1] # <<>>
    /\ r.value[1][1].function_call # NoCall

\* the loop is running: between the entry into chat_loop and its break
InLoop == pc \in {"AwaitingQuery", "ModelPending", "ToolPending"}

\* C11: when the first part of the response carries no function call, the
\* turn ends showing the model's text as it is; no handler runs, no call_tool
\* request is sent, and the advertised tool list stays as it was.
C11_PlainTextTurn ==
    [][(pc = "ModelPending" /\ FirstIsText(response')) =>
          /\ pc' = "AwaitingQuery"
          /\ raised' = "none"
          /\ handlerCalls' = 0
          /\ toolRequests' = 0
          /\ toolPending' = 0
          /\ available_tools' = available_tools
          /\ hostTools' = hostTools
          /\ \E i \in 1..Len(display') :
                display'[i] =
                   Printed("text",
                           JoinStrings("", [j \in 1..Len(response'.value[1]) |->
                                              response'.value[1][j].text]))
          /\ \A i \in 1..Len(display') :
                display'[i].kind \in {"nofn", "text", "newline"}]_vars

C11_Witness ==
    /\ variant = "remote"
    /\ pc = "AwaitingQuery"
    /\ response = Returned(<<<<TextPart("Hel"), TextPart("lo!")>>>>)
    /\ Shows("text")

\* the function declarations of a list of types.Tool, in order
RECURSIVE Declarations(_)
Declarations(tools) ==
    IF tools = <<>> THEN <<>>
    ELSE Head(tools).function_declarations \o Declarations(Tail(tools))

NamesOf(seq) == {seq[i].name : i \in 1..Len(seq)}

\* C12: the descriptors advertised to the model have pairwise distinct names
\* and are exactly the registered tools: one descriptor per distinct name the
\* host returned (remote), the two tools of TOOLS (local).
C12_UniqueAdvertisedNames ==
    LET decls == Declarations(available_tools)
    IN  /\ \A i, j \in 1..Len(decls) : i # j => decls[i].name # decls[j].name
        /\ (variant = "remote" /\ InLoop) =>
              /\ NamesOf(decls) = NamesOf(hostTools)
              /\ Len(decls) = Cardinality(NamesOf(hostTools))
        /\ variant = "local" => NamesOf(decls) = {"search_papers", "extract_info"}

\* C13: single-flight. At most one model request or tool call is outstanding
\* at any time, one is outstanding only while its query is being processed,
\* and the loop reads the next line only when none is outstanding.
C13_SingleFlight ==
    [][/\ modelPending' + toolPending' <= 1
       /\ modelPending' = 1 <=> pc' = "ModelPending"
       /\ toolPending' = 1 <=> pc' = "ToolPending"
       /\ turns' # turns => (pc = "AwaitingQuery" /\ modelPending = 0 /\ toolPending = 0)]_vars

C13_Witness ==
    /\ turns >= 2
    /\ pc = "ToolPending"
    /\ toolPending = 1
    /\ modelPending = 0

\* C14 as stated: every dispatched query causes exactly one model request and
\* at most one tool invocation.
C14_ExactlyOneModelRequest ==
    processCalls = 1 => (modelCalls = 1 /\ handlerCalls + toolRequests <= 1)

\* C14, amended: a dispatched query causes at most one model request (exactly
\* one once the client exists: always in the remote variant, and in the local
\* one when API_KEY is set; none when it is not, the turn ending in KeyError)
\* and at most one tool invocation. A request is sent only by the step that
\* reads a new query and a tool is invoked only by the step that receives the
\* model's answer, so a failed call is never issued again.
C14_AtMostOnePerTurn ==
    [][/\ processCalls' <= 1
       /\ modelCalls' <= 1
       /\ handlerCalls' + toolRequests' <= 1
       /\ modelCalls' <= processCalls'
       /\ (processCalls' = 1 /\ (variant = "remote" \/ apiKey)) => modelCalls' = 1
       /\ (processCalls' = 1 /\ variant = "local" /\ ~apiKey) =>
             (modelCalls' = 0 /\ raised' = "KeyError")
       /\ modelPending' > modelPending => (turns' = turns + 1 /\ processCalls' = 1)
       /\ turns' = turns => modelCalls' = modelCalls
       /\ (handlerCalls' # handlerCalls \/ toolRequests' # toolRequests) =>
             \/ turns' = turns + 1 /\ handlerCalls' = 0 /\ toolRequests' = 0
             \/ pc = "ModelPending" /\ FirstIsCall(response')
       /\ (turns' = turns /\ raised' # "none") => pc' # "ModelPending" /\ pc' # "ToolPending"]_vars

C14_Witness ==
    /\ pc = "AwaitingQuery"
    /\ raised = "McpError"
    /\ modelCalls = 1
    /\ toolRequests = 1
    /\ turns >= 2

\* C15: the advertised tool list is written only by the list_tools step of
\* the connect handshake, at most once per run, and no step of chat_loop
\* (reading a query, the model's answer, a tool result, an error) changes it:
\* throughout the loop it is the translation of what the host listed (remote)
\* or TOOLS (local).
C15_RegistryFixedInLoop ==
    [][/\ InLoop => (available_tools' = available_tools /\ hostTools' = hostTools)
       /\ available_tools' # available_tools =>
             (pc = "initialized" /\ listRequests = 0 /\ listRequests' = 1)
       /\ listRequests' <= 1
       /\ pc' \in {"AwaitingQuery", "ModelPending", "ToolPending"} =>
             available_tools' = IF variant = "remote" THEN TranslateTools(hostTools')
                                ELSE <<[function_declarations |-> TOOLS]>>]_vars

C15_Witness ==
    /\ variant = "remote"
    /\ pc = "AwaitingQuery"
    /\ turns >= 2
    /\ Shows("result")
    /\ Len(available_tools) = 2

\* C16: a call_tool that fails ends its turn only. The error is printed, the
\* loop is back at its prompt with the run not ended, and no step of the loop
\* (the failing one included) sends initialize or list_tools, rebinds the
\* session or closes the channel: each later call_tool goes out on the session
\* bound at connect.
C16_ChannelErrorDegradesTurnOnly ==
    [][/\ (pc = "ToolPending" /\ variant = "remote" /\ raised' = "McpError") =>
             /\ pc' = "AwaitingQuery"
             /\ display'[Len(display')] = Printed("error", ExcMessage("McpError"))
             /\ exitCause' = "none"
             /\ exc' = exc
       /\ InLoop =>
             /\ session' = session
             /\ sessionState' = sessionState
             /\ stdioState' = stdioState
             /\ initRequests' = initRequests
             /\ listRequests' = listRequests
       /\ (variant = "remote" /\ toolRequests' > toolRequests) =>
             /\ session' = "bound"
             /\ initRequests' = 1
             /\ listRequests' = 1]_vars

C16_Witness ==
    /\ variant = "remote"
    /\ pc = "AwaitingQuery"
    /\ raised = "McpError"
    /\ Shows("error")
    /\ session = "bound"
    /\ sessionState = "initialized"
    /\ initRequests = 1
    /\ listRequests = 1
    /\ turns = 1

\* a tool exists for the call: every name in the remote variant (the host
\* decides), the two names of the if/elif chain in the local one
HasHandler(fc) == variant = "remote" \/ fc.name \in {"search_papers", "extract_info"}

\* C17: when the model's answer arrives, the turn takes the function-call
\* branch if and only if the first part of the first candidate carries a
\* function call, and the call it acts on is that part's; a tool is invoked
\* exactly when that call has a handler, so a call carried by another part or
\* another candidate never invokes a tool.
C17_FirstPartDecidesIntent ==
    [][/\ pc = "ModelPending" =>
             /\ intent' # NoCall <=> FirstIsCall(response')
             /\ FirstIsCall(response') => intent' = response'.value[1][1].function_call
             /\ FirstIsText(response') => pc' = "AwaitingQuery"
             /\ handlerCalls' + toolRequests' = 1 <=>
                   (FirstIsCall(response') /\ HasHandler(response'.value[1][1].function_call))
             /\ pc' = "ToolPending" <=> handlerCalls' + toolRequests' = 1
       /\ handlerCalls' + toolRequests' > 0 =>
             /\ FirstIsCall(response')
             /\ intent' = response'.value[1][1].function_call]_vars

C17_Witness ==
    /\ pc = "AwaitingQuery"
    /\ response \in { Returned(<<<<TextPart("Let me search."),
                                  CallPart("search_papers", "{'topic': 'x'}")>>>>),
                      Returned(<<<<TextPart("No tool.")>>,
                                 <<CallPart("extract_info", "{'paper_id': 'id1'}")>>>>) }
    /\ intent = NoCall
    /\ handlerCalls + toolRequests = 0
    /\ Shows("nofn")

\* C18: in the remote variant the advertised list has one descriptor per tool
\* the host listed, in order, with the tool's name and description, and with
\* parameters whose keys are those of inputSchema other than
\* additionalProperties and $schema, each with the value inputSchema gives it.
C18_DescriptorIsFilteredSchema ==
    variant = "remote" =>
       /\ Len(available_tools) = Len(hostTools)
       /\ \A i \in 1..Len(hostTools) :
            LET d == available_tools[i].function_declarations
                t == hostTools[i]
            IN  /\ Len(d) = 1
                /\ d[1].name = t.name
                /\ d[1].description = t.description
                /\ DOMAIN d[1].parameters =
                      (DOMAIN t.inputSchema) \ {"additionalProperties", "$schema"}
                /\ \A k \in DOMAIN d[1].parameters : d[1].parameters[k] = t.inputSchema[k]

C18_Witness ==
    /\ variant = "remote"
    /\ pc = "AwaitingQuery"
    /\ Len(hostTools) = 2
    /\ {"additionalProperties", "$schema", "title"} \subseteq DOMAIN hostTools[1].inputSchema
    /\ "title" \in DOMAIN available_tools[1].function_declarations[1].parameters
    /\ hostTools[2].name = "extract_info"

\* C19: in the remote variant every step that sends initialize does so on a
\* bound session over an open channel; every step that sends list_tools comes
\* after the one initialize has completed; every step that reads a query comes
\* after the one list_tools has completed; and every step that sends call_tool
\* finds the session bound, initialized and not closed, the handshake done and
\* teardown not begun. No step at or after teardown reads a query or sends a
\* request.
C19_HandshakeBeforeCalls ==
    [][variant = "remote" =>
          /\ initRequests' > initRequests =>
                (session = "bound" /\ stdioState = "open" /\ initRequests = 0)
          /\ listRequests' > listRequests =>
                (sessionState = "initialized" /\ initRequests = 1 /\ listRequests = 0)
          /\ turns' > turns =>
                (listRequests = 1 /\ sessionState = "initialized" /\ pc = "AwaitingQuery")
          /\ toolRequests' > toolRequests =>
                /\ session = "bound"
                /\ sessionState = "initialized"
                /\ stdioState = "open"
                /\ sessionCloses = 0
                /\ stdioCloses = 0
                /\ initRequests = 1
                /\ listRequests = 1
          /\ pc \in {"start", "stdio_entered", "session_bound", "initialized",
                     "Done", "session_exit", "stdio_exit", "exited"} =>
                /\ toolRequests' = toolRequests
                /\ modelCalls' = modelCalls
                /\ turns' = turns]_vars

C19_Witness ==
    /\ variant = "remote"
    /\ pc = "ToolPending"
    /\ turns = 1
    /\ toolRequests = 1
    /\ sessionState = "initialized"
    /\ intent.name = "get_weather"

====
